---- MODULE Spec2Model ----
(***************************************************************************)
(* Invoice / quote lifecycle of the business microservice: the sequence    *)
(* generator of CompanyService, InvoiceService, QuoteService and the       *)
(* CacheService they read through.  Every await of the services is a step  *)
(* of a request; requests of different callers interleave at those steps.  *)
(*                                                                         *)
(* Numbers: money is kept in thousandths (MoneyScale) and VAT rates in     *)
(* tenths of a percent (RateScale); the inputs are chosen so that every    *)
(* product and quotient of the calculator is exact at that scale.          *)
(***************************************************************************)
EXTENDS Integers, Sequences, FiniteSets, TLC

----------------------------------------------------------------------------
(* Bounds of the model *)

NumProcs == 2        \* concurrent requests
MaxOps == 2          \* requests started in one behaviour
MaxNow == 1          \* the clock runs 0..MaxNow
MaxQty == 2          \* quantities the calculator is given: 1..MaxQty

Procs == 1..NumProcs

----------------------------------------------------------------------------
(* Optional values (undefined / null) and JavaScript truthiness *)

None == <<>>
Some(v) == <<v>>
IsSome(o) == o # <<>>
Val(o) == o[1]

\* `x || d` and `x ? a : b` on an optional number: undefined, null and 0 are falsy
Truthy(o) == IsSome(o) /\ Val(o) # 0
OrElse(o, d) == IF Truthy(o) THEN Val(o) ELSE d

----------------------------------------------------------------------------
(* Monetary calculator *)

MoneyScale == 1000
RateScale == 10

\* the rates table of getVatRateValue, in tenths of a percent
Rates == [ZERO |-> 0, REDUCED_1 |-> 21, REDUCED_2 |-> 55,
          REDUCED_3 |-> 100, STANDARD |-> 200, EXPORT |-> 0]

\* names every JavaScript object inherits: rates[name] is a function, not a number
InheritedNames == {"toString"}
NotANumber == 0 - 1

\* InvoiceService.getVatRateValue: rates[vatRate] || 20.0
getVatRateValue(vatRate) ==
    IF vatRate \in DOMAIN Rates
    THEN (IF Rates[vatRate] # 0 THEN Rates[vatRate] ELSE 200)
    ELSE IF vatRate \in InheritedNames THEN NotANumber
    ELSE 200

\* QuoteService.getVatRateValue: the same text
quoteGetVatRateValue(vatRate) ==
    IF vatRate \in DOMAIN Rates
    THEN (IF Rates[vatRate] # 0 THEN Rates[vatRate] ELSE 200)
    ELSE IF vatRate \in InheritedNames THEN NotANumber
    ELSE 200

\* one line of calculateInvoiceTotals / calculateQuoteTotals, given the rate
\* the service's getVatRateValue resolved; quantity and unit price are whole,
\* the totals are in thousandths
CalcItem(item, vatRate) ==
    LET lineTotal == item.quantity * item.unit_price_excluding_tax * MoneyScale
        discountAmount ==
            IF Truthy(item.discount_percentage)
            THEN (lineTotal * Val(item.discount_percentage)) \div 100
            ELSE OrElse(item.discount_amount, 0) * MoneyScale
        totalExcludingTax == lineTotal - discountAmount
        vatAmount == IF vatRate = NotANumber THEN NotANumber
                     ELSE (totalExcludingTax * vatRate) \div (100 * RateScale)
        totalIncludingTax == IF vatAmount = NotANumber THEN NotANumber
                             ELSE totalExcludingTax + vatAmount
    IN  [item EXCEPT !.total_excluding_tax = totalExcludingTax,
                     !.total_including_tax = totalIncludingTax]

\* items.reduce((sum, item) => sum + ..., 0)
RECURSIVE SumSeq(_)
SumSeq(s) == IF s = <<>> THEN 0 ELSE Head(s) + SumSeq(Tail(s))

SumExcl(items) == SumSeq([i \in 1..Len(items) |-> items[i].total_excluding_tax])
SumIncl(items) == SumSeq([i \in 1..Len(items) |-> items[i].total_including_tax])
SumTax(items) ==
    SumSeq([i \in 1..Len(items) |->
              items[i].total_including_tax - items[i].total_excluding_tax])

Totals(items) ==
    [totalExcludingTax |-> SumExcl(items),
     totalTax |-> SumTax(items),
     totalIncludingTax |-> SumIncl(items)]

calculateInvoiceTotals(itemsData) ==
    LET items == [i \in 1..Len(itemsData) |->
                    CalcItem(itemsData[i], getVatRateValue(itemsData[i].vat_rate))]
    IN  [items |-> items, totals |-> Totals(items)]

calculateQuoteTotals(itemsData) ==
    LET items == [i \in 1..Len(itemsData) |->
                    CalcItem(itemsData[i], quoteGetVatRateValue(itemsData[i].vat_rate))]
    IN  [items |-> items, totals |-> Totals(items)]

\* a raw line item as a caller submits it
RawItem(q, p, pct, amt, vat, so) ==
    [item_id |-> None, quantity |-> q, unit_price_excluding_tax |-> p,
     discount_percentage |-> pct, discount_amount |-> amt,
     vat_rate |-> vat, sort_order |-> so,
     total_excluding_tax |-> 0, total_including_tax |-> 0]

ItemA == RawItem(3, 100, None, None, "STANDARD", None)
ItemB == RawItem(1, 50, None, None, "REDUCED_2", Some(1))
ItemC == RawItem(2, 10, Some(10), None, "REDUCED_1", None)

\* the item lists requests carry
ItemLists == {<<ItemA, ItemB>>, <<ItemC>>}

----------------------------------------------------------------------------
(* State *)

VARIABLES
    settings,   \* the company's CompanySettings row: None until first created
    invoices,   \* stored invoices with their items: invoice_id -> row
    payments,   \* stored Payment rows
    quotes,     \* stored quotes with their items: quote_id -> row
    cache,      \* Redis: <<kind, id>> -> the JSON of a row
    redisUp,    \* whether Redis answers; while it is down every command throws
    ids,        \* identities the storage has handed out, per table
    now,        \* the clock
    procs,      \* the requests in flight, one per caller
    ops,        \* requests started so far
    returned,   \* history: the numbers the sequence generator returned
    results,    \* history: how each finished call ended
    frozen,     \* history: each invoice as it was when it became paid / cancelled
    calc,       \* the calculator's input and output (pure-function checks)
    auth        \* the request the auth layer is given and its verdict

vars == <<settings, invoices, payments, quotes, cache, redisUp, ids, now, procs,
          ops, returned, results, frozen, calc, auth>>

dbVars == <<settings, invoices, payments, quotes, ids>>

\* finite maps
Put(f, k, v) == [x \in DOMAIN f \cup {k} |-> IF x = k THEN v ELSE f[x]]
Drop(f, k) == [x \in DOMAIN f \ {k} |-> f[x]]
EmptyMap == <<>>

----------------------------------------------------------------------------
(* Sequence generator: the number string *)

RECURSIVE Digits(_)
\* Number.prototype.toString(): the decimal digits of n >= 0
Digits(n) == IF n < 10 THEN <<n>> ELSE Append(Digits(n \div 10), n % 10)

RECURSIVE PadStart(_, _)
\* String.prototype.padStart(width, "0")
PadStart(d, width) == IF Len(d) >= width THEN d ELSE PadStart(<<0>> \o d, width)

\* `${prefix}-${nextNumber.toString().padStart(4, "0")}`
FormatNumber(prefix, n) == [prefix |-> prefix, digits |-> PadStart(Digits(n), 4)]

\* createDefaultSettings
DefaultSettings ==
    [invoice_prefix |-> "INV", quote_prefix |-> "QUO",
     next_invoice_number |-> 1, next_quote_number |-> 1,
     default_payment_terms |-> 30]

----------------------------------------------------------------------------
(* Rows *)

\* the rows createMany writes for calculated items: sort_order: item.sort_order || index
StoredItems(items, lastId) ==
    [i \in 1..Len(items) |->
        [items[i] EXCEPT !.item_id = Some(lastId + i),
                         !.sort_order = Some(OrElse(items[i].sort_order, i - 1))]]

\* tx.invoice.create of createInvoice; status and payment_status take the
\* column defaults
NewInvoice(number, dueDate, calculated, lastItemId) ==
    [invoice_number |-> number,
     due_date |-> dueDate,
     status |-> "draft",
     payment_status |-> "unpaid",
     payment_method |-> None,
     amount_excluding_tax |-> calculated.totals.totalExcludingTax,
     tax |-> calculated.totals.totalTax,
     amount_including_tax |-> calculated.totals.totalIncludingTax,
     items |-> StoredItems(calculated.items, lastItemId),
     sent_at |-> None, paid_at |-> None, cancelled_at |-> None]

\* tx.quote.create of createQuote
NewQuote(number, validity, calculated, lastItemId) ==
    [quote_number |-> number,
     status |-> "draft",
     validity_date |-> validity,
     amount_excluding_tax |-> calculated.totals.totalExcludingTax,
     tax |-> calculated.totals.totalTax,
     amount_including_tax |-> calculated.totals.totalIncludingTax,
     items |-> StoredItems(calculated.items, lastItemId),
     sent_at |-> None, accepted_at |-> None, rejected_at |-> None,
     expired_at |-> None,
     converted_to_invoice |-> FALSE, invoice_id |-> None]

Table(kind) == IF kind = "invoice" THEN invoices ELSE quotes

PaymentsOf(id) == {pm \in payments : pm.invoice_id = id}

----------------------------------------------------------------------------
(* Requests *)

InvoiceOps == {"createInvoice", "getInvoiceById", "updateInvoice", "deleteInvoice",
               "invoiceMarkAsSent", "markAsPaid"}
QuoteOps == {"createQuote", "getQuoteById", "updateQuote", "deleteQuote",
             "quoteMarkAsSent", "markAsAccepted", "convertToInvoice"}
NumberOps == {"getNextInvoiceNumber", "getNextQuoteNumber"}

KindOf(op) == IF op \in InvoiceOps \cup {"getNextInvoiceNumber"} THEN "invoice" ELSE "quote"

NoArg == [status |-> None, items |-> None, amount |-> None, pay |-> None,
          validity |-> None, settings |-> None,
          due_date |-> None, payment_terms |-> None]

Request(op, id, arg) == [op |-> op, id |-> id, arg |-> arg]

\* the loop state of bulkAction: the action and ids it was given, the call it
\* makes per id, the ids left, the tally
NoBulk == [on |-> FALSE, action |-> "none", all |-> <<>>,
           op |-> "none", arg |-> NoArg, ids |-> <<>>,
           success |-> 0, failed |-> 0, errors |-> <<>>]

IdleProc ==
    [pc |-> "idle", op |-> "none", call |-> 0, id |-> 0, arg |-> NoArg,
     snap |-> None, cached |-> FALSE, out |-> None, num |-> None,
     newId |-> None, due |-> None, cnt |-> 0, bulk |-> NoBulk]

\* where a request first suspends
FirstPc(op) ==
    CASE op \in {"getInvoiceById", "getQuoteById"} -> "r2_cache"
      [] op \in {"createInvoice", "createQuote"} \cup NumberOps -> "num_read"
      [] op = "updateCompanySettings" -> "st_write"
      [] OTHER -> "r1_cache"

Begin(r, call) ==
    [IdleProc EXCEPT !.pc = FirstPc(r.op), !.op = r.op, !.call = call,
                     !.id = r.id, !.arg = r.arg]

----------------------------------------------------------------------------
(* Errors: what the catch block of each method lets through *)

Wrap(op, e) ==
    CASE op = "createInvoice" -> "InvoiceError"
      [] op = "createQuote" -> "QuoteError"
      [] op \in NumberOps \cup {"updateCompanySettings"} -> "CompanyError"
      [] op = "getInvoiceById" ->
            IF e = "NotFoundError" THEN e ELSE "InvoiceError"
      [] op = "getQuoteById" ->
            IF e = "NotFoundError" THEN e ELSE "QuoteError"
      [] op \in InvoiceOps ->
            IF e \in {"NotFoundError", "InvoiceStatusError"} THEN e ELSE "InvoiceError"
      [] OTHER ->
            IF e \in {"NotFoundError", "QuoteStatusError"} THEN e ELSE "QuoteError"

----------------------------------------------------------------------------
(* How a call ends *)

\* the document a create / convert call has written so far, and its table
CreatedKind(op) == IF op = "createQuote" THEN "quote" ELSE "invoice"
CreatedStored(pr) ==
    IsSome(pr.newId) /\ Val(pr.newId) \in DOMAIN Table(CreatedKind(pr.op))

\* convertToInvoice: the quote is stored as converted into this call's invoice
Linked(pr) ==
    /\ pr.op = "convertToInvoice"
    /\ IsSome(pr.newId)
    /\ pr.id \in DOMAIN quotes
    /\ quotes[pr.id].status = "converted"
    /\ quotes[pr.id].converted_to_invoice
    /\ quotes[pr.id].invoice_id = pr.newId

Entry(pr, res) ==
    [call |-> pr.call, op |-> pr.op, id |-> pr.id, res |-> res,
     created |-> pr.newId, stored |-> CreatedStored(pr), linked |-> Linked(pr),
     num |-> pr.num, action |-> "none", batch |-> <<>>,
     success |-> 0, failed |-> 0, errors |-> <<>>]

\* results.success++ / results.failed++, results.errors.push(...)
BulkTally(b, res) ==
    [b EXCEPT !.ids = Tail(@),
              !.success = IF res = "ok" THEN @ + 1 ELSE @,
              !.failed = IF res = "ok" THEN @ ELSE @ + 1,
              !.errors = IF res = "ok" THEN @
                         ELSE Append(@, [id |-> Head(b.ids), error |-> res])]

\* return results
BulkEntry(call, b) ==
    [call |-> call, op |-> "bulkAction", id |-> 0, res |-> "ok",
     created |-> None, stored |-> FALSE, linked |-> FALSE, num |-> None,
     action |-> b.action, batch |-> b.all,
     success |-> b.success, failed |-> b.failed, errors |-> b.errors]

\* the request after this call: none, or the next id of the bulkAction loop
FinishProc(pr, res) ==
    IF ~pr.bulk.on THEN IdleProc
    ELSE LET b == BulkTally(pr.bulk, res)
         IN  IF b.ids = <<>> THEN IdleProc
             ELSE [Begin(Request(b.op, Head(b.ids), b.arg), pr.call)
                     EXCEPT !.bulk = b]

FinishEntries(pr, res) ==
    {Entry(pr, res)} \cup
    (IF pr.bulk.on /\ Tail(pr.bulk.ids) = <<>>
     THEN {BulkEntry(pr.call, BulkTally(pr.bulk, res))} ELSE {})

Continue(pr) == [proc |-> pr, fin |-> {}]
Finished(pr, res) == [proc |-> FinishProc(pr, res), fin |-> FinishEntries(pr, res)]
\* a catch block that swallows the error and lets the call return
Raise_Swallowed(pr, e) == Finished(pr, "ok")
Raise(pr, e) == Finished(pr, Wrap(pr.op, e))

Apply(p, o) ==
    /\ procs' = [procs EXCEPT ![p] = o.proc]
    /\ results' = results \cup o.fin

----------------------------------------------------------------------------
(* Guards: the checks a method makes on the entity it has just read *)

\* quote.validity_date < new Date(): a quote read from the cache went through
\* JSON, its validity_date is a string, and a string that is no number
\* compares false with a Date
ValidityPassed(row, fromCache, t) ==
    IF fromCache THEN FALSE ELSE row.validity_date < t

\* a convertToInvoice that checks nothing
ConvertGuard_Unchecked(row) == "ok"

\* the two checks of convertToInvoice
ConvertGuard(row) ==
    IF row.status # "accepted" THEN "QuoteStatusError"
    ELSE IF row.converted_to_invoice THEN "QuoteStatusError" ELSE "ok"

Guard(pr, row, fromCache, t) ==
    CASE pr.op = "updateInvoice" ->
            IF row.status = "paid" /\ (IsSome(pr.arg.items) \/ Truthy(pr.arg.amount))
            THEN "InvoiceStatusError"
            ELSE IF row.status = "cancelled" THEN "InvoiceStatusError" ELSE "ok"
      [] pr.op = "deleteInvoice" ->
            IF row.status = "paid" THEN "InvoiceStatusError" ELSE "ok"
      [] pr.op = "invoiceMarkAsSent" ->
            IF row.status # "draft" /\ row.status # "pending"
            THEN "InvoiceStatusError" ELSE "ok"
      [] pr.op = "markAsPaid" ->
            IF row.payment_status = "paid" THEN "InvoiceStatusError" ELSE "ok"
      [] pr.op = "updateQuote" ->
            IF row.status = "accepted" /\ ~IsSome(pr.arg.status)
            THEN "QuoteStatusError"
            ELSE IF row.status = "converted" THEN "QuoteStatusError" ELSE "ok"
      [] pr.op = "deleteQuote" ->
            IF row.status = "accepted" \/ row.status = "converted"
            THEN "QuoteStatusError" ELSE "ok"
      [] pr.op = "quoteMarkAsSent" ->
            IF row.status # "draft" /\ row.status # "pending"
            THEN "QuoteStatusError" ELSE "ok"
      [] pr.op = "markAsAccepted" ->
            IF row.status = "accepted" THEN "QuoteStatusError"
            ELSE IF ValidityPassed(row, fromCache, t) THEN "QuoteStatusError"
            ELSE "ok"
      [] pr.op = "convertToInvoice" -> ConvertGuard(row)
      [] OTHER -> "ok"

\* the await that follows a passed guard
AfterGuard(op) ==
    CASE op = "deleteInvoice" -> "count"
      [] op = "convertToInvoice" -> "cv_begin"
      [] OTHER -> "write"

----------------------------------------------------------------------------
(* getInvoiceById / getQuoteById: r1 is the read a method starts with, r2 the
   read-back it returns (or the whole of a plain get) *)

Phase(pc) == IF pc \in {"r1_cache", "r1_db", "r1_set"} THEN 1 ELSE 2

ReadKey(pr) ==
    IF Phase(pr.pc) = 2 /\ pr.op \in {"createInvoice", "createQuote", "convertToInvoice"}
    THEN <<CreatedKind(pr.op), Val(pr.newId)>>
    ELSE <<KindOf(pr.op), pr.id>>

ReadReturn(pr, row, fromCache) ==
    IF Phase(pr.pc) = 1
    THEN LET g == Guard(pr, row, fromCache, now)
         IN  IF g # "ok" THEN Raise(pr, g)
             ELSE Continue([pr EXCEPT !.snap = Some(row), !.cached = fromCache,
                                      !.pc = AfterGuard(pr.op)])
    ELSE IF pr.op = "convertToInvoice"
         THEN Continue([pr EXCEPT !.out = Some(row), !.pc = "cv_update"])
         ELSE Finished([pr EXCEPT !.out = Some(row)], "ok")

\* an error thrown inside the get; inside convertToInvoice's createInvoice it
\* first passes createInvoice's catch
ReadFail(pr, e) ==
    IF Phase(pr.pc) = 2 /\ pr.op = "convertToInvoice"
    THEN Raise(pr, Wrap("createInvoice", e))
    ELSE Raise(pr, e)

\* cacheService.get: a failing Redis reads as a miss
ReadCache(p) ==
    LET pr == procs[p] IN
    /\ pr.pc \in {"r1_cache", "r2_cache"}
    /\ IF redisUp /\ ReadKey(pr) \in DOMAIN cache
          THEN Apply(p, ReadReturn(pr, cache[ReadKey(pr)], TRUE))
          ELSE Apply(p, Continue([pr EXCEPT !.pc = IF Phase(pr.pc) = 1
                                                   THEN "r1_db" ELSE "r2_db"]))
    /\ UNCHANGED <<redisUp, dbVars, cache, now, ops, returned, frozen, calc, auth>>

\* prisma findUnique with the items included
ReadDb(p) ==
    LET pr == procs[p]
        key == ReadKey(pr)
    IN
    /\ pr.pc \in {"r1_db", "r2_db"}
    /\ IF key[2] \in DOMAIN Table(key[1])
       THEN Apply(p, Continue([pr EXCEPT
                !.out = Some(Table(key[1])[key[2]]),
                !.pc = IF Phase(pr.pc) = 1 THEN "r1_set" ELSE "r2_set"]))
       ELSE Apply(p, ReadFail(pr, "NotFoundError"))
    /\ UNCHANGED <<redisUp, dbVars, cache, now, ops, returned, frozen, calc, auth>>

\* cacheService.set: a failing Redis makes the get throw
ReadSet(p) ==
    LET pr == procs[p] IN
    /\ pr.pc \in {"r1_set", "r2_set"}
    /\ IF redisUp
          THEN /\ cache' = Put(cache, ReadKey(pr), Val(pr.out))
               /\ Apply(p, ReadReturn([pr EXCEPT !.out = None], Val(pr.out), FALSE))
          ELSE /\ cache' = cache
               /\ Apply(p, ReadFail([pr EXCEPT !.out = None], "RedisError"))
    /\ UNCHANGED <<redisUp, dbVars, now, ops, returned, frozen, calc, auth>>

\* the TTL of an entry runs out
CacheExpire ==
    /\ \E key \in DOMAIN cache : cache' = Drop(cache, key)
    /\ UNCHANGED <<redisUp, dbVars, now, procs, ops, returned, results, frozen, calc, auth>>

\* Redis goes down or comes back
RedisFlip ==
    /\ redisUp' = ~redisUp
    /\ UNCHANGED <<dbVars, cache, now, procs, ops, returned, results, frozen, calc, auth>>

Tick ==
    /\ now < MaxNow
    /\ now' = now + 1
    /\ UNCHANGED <<redisUp, dbVars, cache, procs, ops, returned, results, frozen, calc, auth>>

----------------------------------------------------------------------------
(* History of the invoices that became paid or cancelled *)

MoneyOf(row) ==
    [items |-> row.items, amount_excluding_tax |-> row.amount_excluding_tax,
     tax |-> row.tax, amount_including_tax |-> row.amount_including_tax]

Freeze(fr, invs, pays) ==
    [id \in DOMAIN fr \cup {i \in DOMAIN invs : invs[i].status \in {"paid", "cancelled"}} |->
        LET old == IF id \in DOMAIN fr THEN fr[id]
                   ELSE [paid |-> None, cancelled |-> None]
            is(st) == id \in DOMAIN invs /\ invs[id].status = st
        IN  [paid |-> IF IsSome(old.paid) \/ ~is("paid") THEN old.paid
                      ELSE Some(MoneyOf(invs[id])),
             cancelled |-> IF IsSome(old.cancelled) \/ ~is("cancelled")
                           THEN old.cancelled
                           ELSE Some([row |-> invs[id],
                                      payments |-> {pm \in pays : pm.invoice_id = id}])]]

----------------------------------------------------------------------------
(* CompanyService.getNextInvoiceNumber / getNextQuoteNumber *)

NumberKind(op) ==
    IF op \in {"createQuote", "getNextQuoteNumber"} THEN "quote" ELSE "invoice"

\* settings.next_invoice_number and settings.invoice_prefix, as read
Counter(st, kind) ==
    IF kind = "invoice"
    THEN [prefix |-> st.invoice_prefix, n |-> st.next_invoice_number]
    ELSE [prefix |-> st.quote_prefix, n |-> st.next_quote_number]

\* data: { next_invoice_number: nextNumber + 1 }
SetCounter(st, kind, n) ==
    IF kind = "invoice"
    THEN [st EXCEPT !.next_invoice_number = n]
    ELSE [st EXCEPT !.next_quote_number = n]

\* getCompanySettings: findUnique
NumRead(p) ==
    LET pr == procs[p] IN
    /\ pr.pc = "num_read"
    /\ IF settings = None
       THEN Apply(p, Continue([pr EXCEPT !.pc = "num_create"]))
       ELSE Apply(p, Continue([pr EXCEPT
                !.num = Some(Counter(Val(settings), NumberKind(pr.op))),
                !.pc = "num_write"]))
    /\ UNCHANGED <<redisUp, dbVars, cache, now, ops, returned, frozen, calc, auth>>

\* getCompanySettings: createDefaultSettings when findUnique found no row;
\* company_id is unique, so a second create fails
NumCreate(p) ==
    LET pr == procs[p] IN
    /\ pr.pc = "num_create"
    /\ IF settings = None
       THEN /\ settings' = Some(DefaultSettings)
            /\ Apply(p, Continue([pr EXCEPT
                    !.num = Some(Counter(DefaultSettings, NumberKind(pr.op))),
                    !.pc = "num_write"]))
       ELSE /\ settings' = settings
            /\ Apply(p, Raise(pr, "CompanyError"))
    /\ UNCHANGED <<redisUp, invoices, payments, quotes, ids, cache, now, ops, returned,
                   frozen, calc, auth>>

\* companySettings.update with the number read plus one, then the number is returned
NumWrite(p) ==
    LET pr == procs[p]
        c == Val(pr.num)
        kind == NumberKind(pr.op)
    IN
    /\ pr.pc = "num_write"
    /\ settings' = Some(SetCounter(Val(settings), kind, c.n + 1))
    /\ returned' = returned \cup
                     {[kind |-> kind, number |-> FormatNumber(c.prefix, c.n),
                       nth |-> Cardinality(returned) + 1]}
    /\ IF pr.op \in NumberOps
       THEN Apply(p, Finished(pr, "ok"))
       ELSE Apply(p, Continue([pr EXCEPT !.pc = "tx"]))
    /\ UNCHANGED <<redisUp, invoices, payments, quotes, ids, cache, now, ops, frozen, calc, auth>>

----------------------------------------------------------------------------
(* CompanyService.updateCompanySettings *)

\* update: data, on the row that exists
PatchedSettings(st, data) ==
    [st EXCEPT
       !.next_invoice_number =
           IF IsSome(data.next_invoice_number) THEN Val(data.next_invoice_number) ELSE @,
       !.next_quote_number =
           IF IsSome(data.next_quote_number) THEN Val(data.next_quote_number) ELSE @,
       !.default_payment_terms =
           IF IsSome(data.default_payment_terms) THEN Val(data.default_payment_terms) ELSE @]

\* companySettings.upsert: the row is updated with data, or created from data
\* (the columns data leaves out take the values createDefaultSettings gives them)
UpdateSettings(p) ==
    LET pr == procs[p]
        data == Val(pr.arg.settings)
    IN
    /\ pr.pc = "st_write"
    /\ settings' = Some(PatchedSettings(IF settings = None THEN DefaultSettings
                                        ELSE Val(settings), data))
    /\ Apply(p, Finished(pr, "ok"))
    /\ UNCHANGED <<redisUp, invoices, payments, quotes, ids, cache, now, ops, returned,
                   frozen, calc, auth>>

----------------------------------------------------------------------------
(* createInvoice / createQuote: the transaction that writes header and items *)

\* a conversion that copies the lines without their discounts
ConvertItem_NoDiscount(qi) ==
    [qi EXCEPT !.item_id = None, !.total_excluding_tax = 0,
               !.total_including_tax = 0,
               !.discount_percentage = None, !.discount_amount = None]

\* the invoice item convertToInvoice builds from a quote item
ConvertItem(qi) ==
    [qi EXCEPT !.item_id = None, !.total_excluding_tax = 0,
               !.total_including_tax = 0]

ConvertItems(qitems) == [i \in 1..Len(qitems) |-> ConvertItem(qitems[i])]

\* data.items of the createInvoice call
InvoiceItemsData(pr) ==
    IF pr.op = "convertToInvoice" THEN ConvertItems(Val(pr.snap).items)
    ELSE Val(pr.arg.items)

\* data.due_date of the createInvoice call
InvoiceDueDate(pr) == IF pr.op = "convertToInvoice" THEN pr.due ELSE pr.arg.due_date

CreateTx(p) ==
    LET pr == procs[p]
        c == Val(pr.num)
        number == FormatNumber(c.prefix, c.n)
    IN
    /\ pr.pc = "tx"
    /\ IF pr.op = "createQuote"
       THEN LET calculated == calculateQuoteTotals(Val(pr.arg.items))
                id == ids.quote + 1
            IN  /\ quotes' = Put(quotes, id,
                        NewQuote(number, Val(pr.arg.validity), calculated, ids.item))
                /\ ids' = [ids EXCEPT !.quote = id,
                                      !.item = @ + Len(calculated.items)]
                /\ invoices' = invoices
                /\ Apply(p, Continue([pr EXCEPT !.newId = Some(id), !.pc = "inval"]))
       ELSE LET calculated == calculateInvoiceTotals(InvoiceItemsData(pr))
                id == ids.invoice + 1
            IN  /\ invoices' = Put(invoices, id,
                        NewInvoice(number, InvoiceDueDate(pr), calculated, ids.item))
                /\ ids' = [ids EXCEPT !.invoice = id,
                                      !.item = @ + Len(calculated.items)]
                /\ quotes' = quotes
                /\ Apply(p, Continue([pr EXCEPT !.newId = Some(id), !.pc = "inval"]))
    /\ frozen' = Freeze(frozen, invoices', payments)
    /\ UNCHANGED <<redisUp, settings, payments, cache, now, ops, returned, calc, auth>>

\* invalidateCache: the entity's key is deleted, unless Redis fails, which is
\* logged and swallowed
InvalidateKey(pr) ==
    IF pr.op \in {"createInvoice", "createQuote", "convertToInvoice"}
    THEN <<CreatedKind(pr.op), Val(pr.newId)>>
    ELSE <<KindOf(pr.op), pr.id>>

Invalidate(p) ==
    LET pr == procs[p] IN
    /\ pr.pc = "inval"
    /\ cache' = IF redisUp THEN Drop(cache, InvalidateKey(pr)) ELSE cache
    /\ IF pr.op \in {"deleteInvoice", "deleteQuote"}
       THEN Apply(p, Finished(pr, "ok"))
       ELSE Apply(p, Continue([pr EXCEPT !.pc = "r2_cache"]))
    /\ UNCHANGED <<redisUp, dbVars, now, ops, returned, frozen, calc, auth>>

----------------------------------------------------------------------------
(* InvoiceService: the writes of updateInvoice, markAsSent, markAsPaid, deleteInvoice *)

\* what the Payment -> Invoice foreign key does when an invoice that has
\* payments is deleted; the schema is not part of the sources, so both are possible
FkModes == {"cascade", "restrict"}

\* an updateInvoice that writes the header's amounts and leaves the old lines
UpdatedInvoice_KeepItems(row, arg, lastItemId) ==
    LET withStatus == [row EXCEPT !.status = IF IsSome(arg.status)
                                             THEN Val(arg.status) ELSE @]
    IN  IF IsSome(arg.items)
        THEN LET calculated == calculateInvoiceTotals(Val(arg.items))
             IN  [withStatus EXCEPT
                    !.amount_excluding_tax = calculated.totals.totalExcludingTax,
                    !.tax = calculated.totals.totalTax,
                    !.amount_including_tax = calculated.totals.totalIncludingTax]
        ELSE withStatus

\* the row tx.invoice.update and the item replacement of updateInvoice leave
UpdatedInvoice(row, arg, lastItemId) ==
    LET withStatus == [row EXCEPT !.status = IF IsSome(arg.status)
                                             THEN Val(arg.status) ELSE @]
    IN  IF IsSome(arg.items)
        THEN LET calculated == calculateInvoiceTotals(Val(arg.items))
             IN  [withStatus EXCEPT
                    !.amount_excluding_tax = calculated.totals.totalExcludingTax,
                    !.tax = calculated.totals.totalTax,
                    !.amount_including_tax = calculated.totals.totalIncludingTax,
                    !.items = StoredItems(calculated.items, lastItemId)]
        ELSE withStatus

\* a markAsPaid that sets the invoice's status as well
PaidInvoice_SetsStatus(row, invoice, pay, t) ==
    [row EXCEPT !.status = "paid",
                !.payment_status = "paid",
                !.paid_at = Some(t),
                !.payment_method =
                    IF IsSome(pay) /\ IsSome(Val(pay).payment_method)
                    THEN Val(pay).payment_method ELSE invoice.payment_method]

\* markAsPaid: the invoice update and the Payment it creates when payment
\* data came with the call; `invoice` is the entity the method read first
PaidInvoice(row, invoice, pay, t) ==
    [row EXCEPT !.payment_status = "paid",
                !.paid_at = Some(t),
                !.payment_method =
                    IF IsSome(pay) /\ IsSome(Val(pay).payment_method)
                    THEN Val(pay).payment_method ELSE invoice.payment_method]

NewPayment(paymentId, invoiceId, invoice, pd) ==
    [payment_id |-> paymentId, invoice_id |-> invoiceId,
     amount |-> IF Truthy(pd.amount) THEN Val(pd.amount) * MoneyScale
                ELSE invoice.amount_including_tax,
     payment_method |-> IF IsSome(pd.payment_method)
                        THEN Val(pd.payment_method) ELSE "cash",
     status |-> "completed"]

Unchanged(pr, e) ==
    [invoices |-> invoices, payments |-> payments, ids |-> ids, out |-> Raise(pr, e)]

InvoiceWriteEffect(pr, fk) ==
    LET id == pr.id
        exists == id \in DOMAIN invoices
        next == Continue([pr EXCEPT !.pc = "inval"])
    IN
    CASE pr.op = "updateInvoice" ->
            IF ~exists THEN Unchanged(pr, "PrismaError")
            ELSE [invoices |-> [invoices EXCEPT
                                  ![id] = UpdatedInvoice(@, pr.arg, ids.item)],
                  payments |-> payments,
                  ids |-> [ids EXCEPT !.item =
                             IF IsSome(pr.arg.items)
                             THEN @ + Len(Val(pr.arg.items)) ELSE @],
                  out |-> next]
      [] pr.op = "invoiceMarkAsSent" ->
            IF ~exists THEN Unchanged(pr, "PrismaError")
            ELSE [invoices |-> [invoices EXCEPT
                                  ![id] = [@ EXCEPT !.status = "sent",
                                                    !.sent_at = Some(now)]],
                  payments |-> payments, ids |-> ids, out |-> next]
      [] pr.op = "markAsPaid" ->
            IF ~exists THEN Unchanged(pr, "PrismaError")
            ELSE [invoices |-> [invoices EXCEPT
                                  ![id] = PaidInvoice(@, Val(pr.snap), pr.arg.pay, now)],
                  payments |-> IF IsSome(pr.arg.pay)
                               THEN payments \cup
                                    {NewPayment(ids.payment + 1, id, Val(pr.snap),
                                                Val(pr.arg.pay))}
                               ELSE payments,
                  ids |-> IF IsSome(pr.arg.pay)
                          THEN [ids EXCEPT !.payment = @ + 1] ELSE ids,
                  out |-> next]
      [] OTHER ->   \* deleteInvoice, on the payment count it took before
            IF ~exists THEN Unchanged(pr, "PrismaError")
            ELSE IF pr.cnt > 0
            THEN [invoices |-> [invoices EXCEPT
                                  ![id] = [@ EXCEPT !.status = "cancelled",
                                                    !.cancelled_at = Some(now)]],
                  payments |-> payments, ids |-> ids, out |-> next]
            ELSE IF PaymentsOf(id) # {} /\ fk = "restrict"
            THEN Unchanged(pr, "PrismaError")
            ELSE [invoices |-> Drop(invoices, id),
                  payments |-> payments \ PaymentsOf(id),
                  ids |-> ids, out |-> next]

InvoiceWrite(p) ==
    LET pr == procs[p] IN
    /\ pr.pc = "write"
    /\ pr.op \in InvoiceOps
    /\ \E fk \in FkModes :
          LET e == InvoiceWriteEffect(pr, fk)
          IN  /\ invoices' = e.invoices
              /\ payments' = e.payments
              /\ ids' = e.ids
              /\ Apply(p, e.out)
    /\ frozen' = Freeze(frozen, invoices', payments')
    /\ UNCHANGED <<redisUp, settings, quotes, cache, now, ops, returned, calc, auth>>

\* deleteInvoice: payment.count
CountPayments(p) ==
    LET pr == procs[p] IN
    /\ pr.pc = "count"
    /\ Apply(p, Continue([pr EXCEPT !.cnt = Cardinality(PaymentsOf(pr.id)),
                                    !.pc = "write"]))
    /\ UNCHANGED <<redisUp, dbVars, cache, now, ops, returned, frozen, calc, auth>>

----------------------------------------------------------------------------
(* QuoteService: the writes of updateQuote, markAsSent, markAsAccepted, deleteQuote *)

\* an updateQuote that adds the new lines after the old ones
UpdatedQuote_AppendItems(row, arg, lastItemId, t) ==
    LET st == arg.status
        header ==
            [row EXCEPT
               !.status = IF IsSome(st) THEN Val(st) ELSE @,
               !.validity_date = IF IsSome(arg.validity) THEN Val(arg.validity) ELSE @,
               !.accepted_at = IF st = Some("accepted") THEN Some(t) ELSE @,
               !.rejected_at = IF st = Some("rejected") THEN Some(t) ELSE @,
               !.expired_at = IF st = Some("expired") THEN Some(t) ELSE @]
    IN  IF IsSome(arg.items)
        THEN LET calculated == calculateQuoteTotals(Val(arg.items))
             IN  [header EXCEPT
                    !.amount_excluding_tax = calculated.totals.totalExcludingTax,
                    !.tax = calculated.totals.totalTax,
                    !.amount_including_tax = calculated.totals.totalIncludingTax,
                    !.items = row.items \o StoredItems(calculated.items, lastItemId)]
        ELSE header

\* the row tx.quote.update and the item replacement of updateQuote leave
UpdatedQuote(row, arg, lastItemId, t) ==
    LET st == arg.status
        header ==
            [row EXCEPT
               !.status = IF IsSome(st) THEN Val(st) ELSE @,
               !.validity_date = IF IsSome(arg.validity) THEN Val(arg.validity) ELSE @,
               !.accepted_at = IF st = Some("accepted") THEN Some(t) ELSE @,
               !.rejected_at = IF st = Some("rejected") THEN Some(t) ELSE @,
               !.expired_at = IF st = Some("expired") THEN Some(t) ELSE @]
    IN  IF IsSome(arg.items)
        THEN LET calculated == calculateQuoteTotals(Val(arg.items))
             IN  [header EXCEPT
                    !.amount_excluding_tax = calculated.totals.totalExcludingTax,
                    !.tax = calculated.totals.totalTax,
                    !.amount_including_tax = calculated.totals.totalIncludingTax,
                    !.items = StoredItems(calculated.items, lastItemId)]
        ELSE header

QuoteWriteEffect(pr) ==
    LET id == pr.id
        next == Continue([pr EXCEPT !.pc = "inval"])
    IN
    IF id \notin DOMAIN quotes
    THEN [quotes |-> quotes, ids |-> ids, out |-> Raise(pr, "PrismaError")]
    ELSE CASE pr.op = "updateQuote" ->
                [quotes |-> [quotes EXCEPT
                               ![id] = UpdatedQuote(@, pr.arg, ids.item, now)],
                 ids |-> [ids EXCEPT !.item =
                            IF IsSome(pr.arg.items)
                            THEN @ + Len(Val(pr.arg.items)) ELSE @],
                 out |-> next]
           [] pr.op = "quoteMarkAsSent" ->
                [quotes |-> [quotes EXCEPT
                               ![id] = [@ EXCEPT !.status = "sent",
                                                 !.sent_at = Some(now)]],
                 ids |-> ids, out |-> next]
           [] pr.op = "markAsAccepted" ->
                [quotes |-> [quotes EXCEPT
                               ![id] = [@ EXCEPT !.status = "accepted",
                                                 !.accepted_at = Some(now)]],
                 ids |-> ids, out |-> next]
           [] OTHER ->   \* deleteQuote
                [quotes |-> Drop(quotes, id), ids |-> ids, out |-> next]

QuoteWrite(p) ==
    LET pr == procs[p]
        e == QuoteWriteEffect(pr)
    IN
    /\ pr.pc = "write"
    /\ pr.op \in QuoteOps
    /\ quotes' = e.quotes
    /\ ids' = e.ids
    /\ Apply(p, e.out)
    /\ UNCHANGED <<redisUp, settings, invoices, payments, cache, now, ops, returned,
                   frozen, calc, auth>>

----------------------------------------------------------------------------
(* QuoteService.convertToInvoice *)

\* due_date of invoiceData: conversionData.due_date ||
\* new Date(Date.now() + (conversionData.payment_terms || 30) days)
ConvertDueDate(arg, t) ==
    IF IsSome(arg.due_date) THEN arg.due_date
    ELSE Some(t + OrElse(arg.payment_terms, 30))

\* the transaction callback starts and builds invoiceData: the Decimal
\* fields of a quote read from the cache are JSON strings, and .toNumber() on
\* a string throws TypeError
ConvertBegin(p) ==
    LET pr == procs[p] IN
    /\ pr.pc = "cv_begin"
    /\ IF pr.cached
       THEN Apply(p, Raise(pr, "TypeError"))
       ELSE Apply(p, Continue([pr EXCEPT !.due = ConvertDueDate(pr.arg, now),
                                         !.pc = "num_read"]))
    /\ UNCHANGED <<redisUp, dbVars, cache, now, ops, returned, frozen, calc, auth>>

ConvertedQuote(row, invoiceId) ==
    [row EXCEPT !.status = "converted", !.converted_to_invoice = TRUE,
                !.invoice_id = Some(invoiceId)]

\* tx.quote.update after createInvoice has returned, and the commit
ConvertUpdate(p) ==
    LET pr == procs[p] IN
    /\ pr.pc = "cv_update"
    /\ IF pr.id \in DOMAIN quotes
       THEN /\ quotes' = [quotes EXCEPT ![pr.id] = ConvertedQuote(@, Val(pr.newId))]
            /\ Apply(p, Continue([pr EXCEPT !.pc = "cv_inval"]))
       ELSE /\ quotes' = quotes
            /\ Apply(p, Raise(pr, "PrismaError"))
    /\ UNCHANGED <<redisUp, settings, invoices, payments, ids, cache, now, ops, returned,
                   frozen, calc, auth>>

\* invalidateCache(quoteId, ...) and the return of { quote, invoice }
ConvertInvalidate(p) ==
    LET pr == procs[p] IN
    /\ pr.pc = "cv_inval"
    /\ cache' = IF redisUp THEN Drop(cache, <<"quote", pr.id>>) ELSE cache
    /\ Apply(p, Finished(pr, "ok"))
    /\ UNCHANGED <<redisUp, dbVars, now, ops, returned, frozen, calc, auth>>

----------------------------------------------------------------------------
(* The requests callers make *)

\* the stored documents requests name
TargetIds == {1}

InvoicePatches ==
    {[NoArg EXCEPT !.status = Some(st)] : st \in {"draft", "paid", "cancelled"}}
    \cup {[NoArg EXCEPT !.items = Some(<<ItemC>>)]}

PaymentData == {None, Some([amount |-> None, payment_method |-> None])}

InvoiceRequests ==
    {Request("createInvoice", 0,
             [NoArg EXCEPT !.items = Some(l),
                           !.due_date = Some(DefaultSettings.default_payment_terms)]) :
        l \in ItemLists}
    \cup {Request(op, id, NoArg) :
            op \in {"getInvoiceById", "deleteInvoice", "invoiceMarkAsSent"},
            id \in TargetIds}
    \cup {Request("updateInvoice", id, a) : id \in TargetIds, a \in InvoicePatches}
    \cup {Request("markAsPaid", id, [NoArg EXCEPT !.pay = pd]) :
            id \in TargetIds, pd \in PaymentData}

QuotePatches ==
    {[NoArg EXCEPT !.status = Some(st)] : st \in {"accepted", "rejected", "converted"}}
    \cup {[NoArg EXCEPT !.items = Some(<<ItemC>>)]}

SeedValidity == 0

QuoteRequests ==
    {Request("createQuote", 0,
             [NoArg EXCEPT !.items = Some(l), !.validity = Some(SeedValidity)]) :
        l \in ItemLists}
    \cup {Request(op, id, NoArg) :
            op \in {"getQuoteById", "deleteQuote", "quoteMarkAsSent",
                    "markAsAccepted", "convertToInvoice"},
            id \in TargetIds}
    \cup {Request("updateQuote", id, a) : id \in TargetIds, a \in QuotePatches}

NumberRequests == {Request(op, 0, NoArg) : op \in NumberOps}

NoSettingsPatch == [next_invoice_number |-> None, next_quote_number |-> None,
                    default_payment_terms |-> None]

\* the bodies of PUT /:companyId/settings
SettingsPatches ==
    {[NoSettingsPatch EXCEPT !.next_invoice_number = Some(1)],
     [NoSettingsPatch EXCEPT !.next_quote_number = Some(1)],
     [NoSettingsPatch EXCEPT !.default_payment_terms = Some(45)]}

SettingsRequests ==
    {Request("updateCompanySettings", 0, [NoArg EXCEPT !.settings = Some(d)]) :
        d \in SettingsPatches}

StartRequest(p, r) ==
    /\ procs[p].pc = "idle"
    /\ ops < MaxOps
    /\ ops' = ops + 1
    /\ procs' = [procs EXCEPT ![p] = Begin(r, ops + 1)]
    /\ UNCHANGED <<redisUp, dbVars, cache, now, returned, results, frozen, calc, auth>>

StartInvoice(p) == \E r \in InvoiceRequests : StartRequest(p, r)
StartQuote(p) == \E r \in QuoteRequests : StartRequest(p, r)
StartNumber(p) == \E r \in NumberRequests : StartRequest(p, r)
StartSettings(p) == \E r \in SettingsRequests : StartRequest(p, r)

----------------------------------------------------------------------------
(* bulkAction of InvoiceService and QuoteService *)

\* the actions IBulkInvoiceAction / IBulkQuoteAction name
BulkActions(kind) ==
    IF kind = "invoice"
    THEN {"send", "mark_paid", "mark_cancelled", "delete", "export"}
    ELSE {"send", "mark_accepted", "mark_rejected", "mark_expired",
          "convert_to_invoice", "delete", "export"}

\* the ids of a batch: document 1 and an id nobody stored
BulkIds == {<<1, 2>>, <<2, 1>>}

\* the switch of the loop body: the method called for each id; "skip" where
\* the case calls nothing, "unsupported" where the default case throws
BulkCall(kind, action, withSettings) ==
    LET call(op, arg) == [op |-> op, arg |-> arg]
        status(st) == [NoArg EXCEPT !.status = Some(st)]
    IN
    IF kind = "invoice"
    THEN CASE action = "send" -> call("invoiceMarkAsSent", NoArg)
           [] action = "mark_paid" -> call("markAsPaid", NoArg)
           [] action = "mark_cancelled" -> call("updateInvoice", status("cancelled"))
           [] action = "delete" -> call("deleteInvoice", NoArg)
           [] OTHER -> call("unsupported", NoArg)
    ELSE CASE action = "send" -> call("quoteMarkAsSent", NoArg)
           [] action = "mark_accepted" -> call("markAsAccepted", NoArg)
           [] action = "mark_rejected" -> call("updateQuote", status("rejected"))
           [] action = "mark_expired" -> call("updateQuote", status("expired"))
           [] action = "convert_to_invoice" ->
                IF withSettings THEN call("convertToInvoice", NoArg) ELSE call("skip", NoArg)
           [] action = "delete" -> call("deleteQuote", NoArg)
           [] OTHER -> call("unsupported", NoArg)

\* the loop over ids when its body awaits nothing: every id is tallied at once
RECURSIVE TallyAll(_, _)
TallyAll(b, res) == IF b.ids = <<>> THEN b ELSE TallyAll(BulkTally(b, res), res)

\* bulkAction up to its first await, or to its return when no case awaits
StartBulk(p, kind, action, withSettings, batch) ==
    LET c == BulkCall(kind, action, withSettings)
        b == [NoBulk EXCEPT !.on = TRUE, !.action = action, !.all = batch,
                            !.op = c.op, !.arg = c.arg, !.ids = batch]
    IN
    /\ procs[p].pc = "idle"
    /\ ops < MaxOps
    /\ ops' = ops + 1
    /\ IF c.op \in {"skip", "unsupported"}
       THEN /\ procs' = procs
            /\ results' = results \cup
                  {BulkEntry(ops + 1,
                             TallyAll(b, IF c.op = "skip" THEN "ok" ELSE "ValidationError"))}
       ELSE /\ procs' = [procs EXCEPT ![p] =
                           [Begin(Request(c.op, Head(batch), c.arg), ops + 1)
                              EXCEPT !.bulk = b]]
            /\ results' = results
    /\ UNCHANGED <<redisUp, dbVars, cache, now, returned, frozen, calc, auth>>

StartBulkAction(p) ==
    \E kind \in {"invoice", "quote"}, withSettings \in BOOLEAN, batch \in BulkIds :
        \E action \in BulkActions(kind) :
            \* options.conversion_settings matters to convert_to_invoice only
            /\ action = "convert_to_invoice" \/ ~withSettings
            /\ StartBulk(p, kind, action, withSettings, batch)

\* the conversionData of convertToInvoice: nothing, payment_terms, due_date
Conversions ==
    {NoArg, [NoArg EXCEPT !.payment_terms = Some(0)],
     [NoArg EXCEPT !.payment_terms = Some(15)], [NoArg EXCEPT !.due_date = Some(5)]}

ConvertRequests ==
    {Request("convertToInvoice", id, a) : id \in TargetIds, a \in Conversions}
    \cup {Request("getQuoteById", id, NoArg) : id \in TargetIds}

\* a caller converts or reads the quote while no other call is in flight
StartConvert(p) ==
    /\ \A q \in Procs : procs[q].pc = "idle"
    /\ \E r \in ConvertRequests : StartRequest(p, r)

\* the requests that create a document
CreateRequests ==
    {r \in InvoiceRequests \cup QuoteRequests : r.op \in {"createInvoice", "createQuote"}}

StartCreate(p) == \E r \in CreateRequests : StartRequest(p, r)

\* the requests that create a document or delete the first one
CreateDeleteRequests ==
    CreateRequests \cup
    {r \in InvoiceRequests \cup QuoteRequests : r.op \in {"deleteInvoice", "deleteQuote"}}

StartCreateDelete(p) == \E r \in CreateDeleteRequests : StartRequest(p, r)

\* two lines whose caller asks for the reverse of the submitted order: the
\* first is to be shown last, the second first (sort_order 0)
Reordered ==
    <<RawItem(1, 50, None, None, "STANDARD", Some(5)),
      RawItem(2, 10, None, None, "STANDARD", Some(0))>>

\* creations and updates, with the item lists and the patches callers send
ItemsRequests ==
    {r \in InvoiceRequests \cup QuoteRequests :
        r.op \in {"createInvoice", "createQuote", "updateInvoice", "updateQuote"}}
    \cup {Request("createInvoice", 0,
                  [NoArg EXCEPT !.items = Some(Reordered),
                                !.due_date = Some(DefaultSettings.default_payment_terms)]),
          Request("createQuote", 0,
                  [NoArg EXCEPT !.items = Some(Reordered), !.validity = Some(SeedValidity)])}
    \cup {Request(op, id, [NoArg EXCEPT !.items = Some(Reordered)]) :
            op \in {"updateInvoice", "updateQuote"}, id \in TargetIds}

StartItems(p) == \E r \in ItemsRequests : StartRequest(p, r)

\* the requests that write or read amounts and items
TotalsRequests ==
    {r \in InvoiceRequests \cup QuoteRequests :
        \/ r.op \in {"createInvoice", "createQuote", "getInvoiceById", "getQuoteById"}
        \/ r.op \in {"updateInvoice", "updateQuote"} /\ IsSome(r.arg.items)}

StartTotals(p) == \E r \in TotalsRequests : StartRequest(p, r)

----------------------------------------------------------------------------
(* The calculator on its own *)

VatCodes == DOMAIN Rates \cup {"UNKNOWN"} \cup InheritedNames

CalcInputs ==
    {<<RawItem(q, pr, pct, amt, vat, None)>> :
        q \in 1..MaxQty, pr \in {10, 50}, pct \in {None, Some(0), Some(10)},
        amt \in {None, Some(5)}, vat \in {"STANDARD", "REDUCED_1", "ZERO"}}
    \cup ItemLists

NoCalc == [pc |-> "off", items |-> <<>>, code |-> "STANDARD", service |-> "none",
           out |-> None, rate |-> None]

\* calculateInvoiceTotals(items) and getVatRateValue(code) of InvoiceService
CalcInvoice ==
    /\ calc.pc = "in"
    /\ calc' = [calc EXCEPT !.pc = "out", !.service = "invoice",
                            !.out = Some(calculateInvoiceTotals(calc.items)),
                            !.rate = Some(getVatRateValue(calc.code))]
    /\ UNCHANGED <<redisUp, dbVars, cache, now, procs, ops, returned, results, frozen, auth>>

\* calculateQuoteTotals(items) and getVatRateValue(code) of QuoteService
CalcQuote ==
    /\ calc.pc = "in"
    /\ calc' = [calc EXCEPT !.pc = "out", !.service = "quote",
                            !.out = Some(calculateQuoteTotals(calc.items)),
                            !.rate = Some(quoteGetVatRateValue(calc.code))]
    /\ UNCHANGED <<redisUp, dbVars, cache, now, procs, ops, returned, results, frozen, auth>>

----------------------------------------------------------------------------
(* The auth layer: SupabaseAuthService.checkPermission and the middleware
   validateCompanyAccess *)

\* a checkPermission in which a manager may do everything
checkPermission_ManagerAll(user, action, resource) ==
    IF user = None \/ ~Val(user).is_active THEN FALSE
    ELSE CASE Val(user).role = "ADMIN" -> TRUE
           [] Val(user).role = "MANAGER" -> TRUE
           [] Val(user).role = "ACCOUNTANT" ->
                resource \in {"invoice", "quote", "customer", "product", "payment"}
           [] Val(user).role = "SALES" ->
                IF resource = "invoice" THEN action \in {"read", "list"}
                ELSE resource \in {"quote", "customer", "product"}
           [] Val(user).role = "USER" -> action \in {"read", "list"}
           [] Val(user).role = "READONLY" -> action \in {"read", "list"}
           [] OTHER -> FALSE

\* checkPermission on what getUserData returned: None when no row was found
checkPermission(user, action, resource) ==
    IF user = None \/ ~Val(user).is_active THEN FALSE
    ELSE CASE Val(user).role = "ADMIN" -> TRUE
           [] Val(user).role = "MANAGER" ->
                IF action = "delete" /\ resource = "user" THEN FALSE ELSE TRUE
           [] Val(user).role = "ACCOUNTANT" ->
                resource \in {"invoice", "quote", "customer", "product", "payment"}
           [] Val(user).role = "SALES" ->
                IF resource = "invoice" THEN action \in {"read", "list"}
                ELSE resource \in {"quote", "customer", "product"}
           [] Val(user).role = "USER" -> action \in {"read", "list"}
           [] Val(user).role = "READONLY" -> action \in {"read", "list"}
           [] OTHER -> FALSE

\* validateCompanyAccess: what it hands to next(); companyId is
\* req.params.companyId || req.body.company_id || req.query.company_id
validateCompanyAccess(req) ==
    IF req.user = None THEN "UnauthorizedError"
    ELSE LET companyId == IF IsSome(req.params) THEN req.params
                          ELSE IF IsSome(req.body) THEN req.body
                          ELSE req.query
         IN  IF IsSome(companyId) /\ Val(req.user).company_id # companyId
                /\ Val(req.user).role # "ADMIN"
             THEN "ForbiddenError"
             ELSE "next"

\* the users getUserData finds (or not) and the permissions asked for
PermissionCalls ==
    [fn : {"checkPermission"},
     user : {None} \cup
            {Some([role |-> r, is_active |-> a, company_id |-> Some("A")]) :
                r \in {"ADMIN", "MANAGER", "ACCOUNTANT", "SALES", "USER",
                       "READONLY", "GUEST"},
                a \in BOOLEAN},
     action : {"read", "list", "create", "update", "delete"},
     resource : {"invoice", "quote", "customer", "product", "payment", "user",
                 "company"},
     params : {None}, body : {None}, query : {None}]

\* the requests that reach validateCompanyAccess: req.user as authenticate
\* set it, of company A or of none, and the company ids the request names
AccessRequests ==
    [fn : {"validateCompanyAccess"},
     user : {None} \cup
            {Some([role |-> r, is_active |-> TRUE, company_id |-> c]) :
                r \in {"ADMIN", "MANAGER", "USER"}, c \in {None, Some("A")}},
     action : {"read"}, resource : {"company"},
     params : {None, Some("A"), Some("B")},
     body : {None, Some("A"), Some("B")},
     query : {None, Some("A"), Some("B")}]

CheckPermission ==
    /\ auth # None
    /\ auth.fn = "checkPermission" /\ auth.pc = "in"
    /\ auth' = [auth EXCEPT !.pc = "out",
                            !.out = checkPermission(auth.user, auth.action, auth.resource)]
    /\ UNCHANGED <<redisUp, dbVars, cache, now, procs, ops, returned, results, frozen, calc>>

ValidateAccess ==
    /\ auth # None
    /\ auth.fn = "validateCompanyAccess" /\ auth.pc = "in"
    /\ auth' = [auth EXCEPT !.pc = "out", !.out = validateCompanyAccess(auth)]
    /\ UNCHANGED <<redisUp, dbVars, cache, now, procs, ops, returned, results, frozen, calc>>

----------------------------------------------------------------------------
(* Initial states and specifications *)

NoIds == [invoice |-> 0, quote |-> 0, item |-> 0, payment |-> 0]

\* a company nobody has used yet
Init ==
    /\ settings = None
    /\ invoices = EmptyMap
    /\ payments = {}
    /\ quotes = EmptyMap
    /\ cache = EmptyMap
    /\ redisUp = TRUE
    /\ ids = NoIds
    /\ now = 0
    /\ procs = [p \in Procs |-> IdleProc]
    /\ ops = 0
    /\ returned = {}
    /\ results = {}
    /\ frozen = EmptyMap
    /\ calc = NoCalc
    /\ auth = None

\* the company after its first document: the settings row exists and number 1
\* is used
UsedSettings(kind) == SetCounter(DefaultSettings, kind, 2)

\* invoice 1 as createInvoice stored it, then as updateInvoice with
\* status = paid left it
SeedInvoiceStatuses == {"draft", "paid"}
SeedInvoice(st) ==
    [NewInvoice(FormatNumber("INV", 1), Some(DefaultSettings.default_payment_terms),
                calculateInvoiceTotals(<<ItemA, ItemB>>), 0)
        EXCEPT !.status = st]

InitInvoice ==
    /\ settings = Some(UsedSettings("invoice"))
    /\ \E st \in SeedInvoiceStatuses : invoices = (1 :> SeedInvoice(st))
    /\ payments = {}
    /\ quotes = EmptyMap
    /\ cache = EmptyMap
    /\ redisUp = TRUE
    /\ ids = [NoIds EXCEPT !.invoice = 1, !.item = 2]
    /\ now = 0
    /\ procs = [p \in Procs |-> IdleProc]
    /\ ops = 0
    /\ returned = {}
    /\ results = {}
    /\ frozen = Freeze(EmptyMap, invoices, payments)
    /\ calc = NoCalc
    /\ auth = None

\* quote 1 as createQuote stored it, then sent by markAsSent, or accepted by
\* markAsAccepted
SeedQuoteStatuses == {"sent", "accepted"}
SeedQuoteWith(st, itemsData, lastItemId) ==
    [NewQuote(FormatNumber("QUO", 1), SeedValidity,
              calculateQuoteTotals(itemsData), lastItemId)
        EXCEPT !.status = st,
               !.sent_at = IF st = "sent" THEN Some(0) ELSE @,
               !.accepted_at = IF st = "accepted" THEN Some(0) ELSE @]

SeedQuote(st, lastItemId) == SeedQuoteWith(st, <<ItemA, ItemB>>, lastItemId)

InitQuote ==
    /\ settings = Some(UsedSettings("quote"))
    /\ invoices = EmptyMap
    /\ payments = {}
    /\ \E st \in SeedQuoteStatuses : quotes = (1 :> SeedQuote(st, 0))
    /\ cache = EmptyMap
    /\ redisUp = TRUE
    /\ ids = [NoIds EXCEPT !.quote = 1, !.item = 2]
    /\ now = 0
    /\ procs = [p \in Procs |-> IdleProc]
    /\ ops = 0
    /\ returned = {}
    /\ results = {}
    /\ frozen = EmptyMap
    /\ calc = NoCalc
    /\ auth = None

\* a company that has one draft invoice and one sent quote
InitTotals ==
    /\ settings = Some(SetCounter(UsedSettings("invoice"), "quote", 2))
    /\ invoices = (1 :> SeedInvoice("draft"))
    /\ payments = {}
    /\ quotes = (1 :> SeedQuote("sent", 2))
    /\ cache = EmptyMap
    /\ redisUp = TRUE
    /\ ids = [NoIds EXCEPT !.invoice = 1, !.quote = 1, !.item = 4]
    /\ now = 0
    /\ procs = [p \in Procs |-> IdleProc]
    /\ ops = 0
    /\ returned = {}
    /\ results = {}
    /\ frozen = EmptyMap
    /\ calc = NoCalc
    /\ auth = None

\* a company that has one draft invoice and one sent or accepted quote
InitBulk ==
    /\ settings = Some(SetCounter(UsedSettings("invoice"), "quote", 2))
    /\ invoices = (1 :> SeedInvoice("draft"))
    /\ payments = {}
    /\ \E st \in SeedQuoteStatuses : quotes = (1 :> SeedQuote(st, 2))
    /\ cache = EmptyMap
    /\ redisUp = TRUE
    /\ ids = [NoIds EXCEPT !.invoice = 1, !.quote = 1, !.item = 4]
    /\ now = 0
    /\ procs = [p \in Procs |-> IdleProc]
    /\ ops = 0
    /\ returned = {}
    /\ results = {}
    /\ frozen = Freeze(EmptyMap, invoices, payments)
    /\ calc = NoCalc
    /\ auth = None

\* a company that has one sent or accepted quote and has kept or changed its
\* default payment terms
InitConvert ==
    /\ \E terms \in {DefaultSettings.default_payment_terms, 45} :
          settings = Some([UsedSettings("quote") EXCEPT !.default_payment_terms = terms])
    /\ invoices = EmptyMap
    /\ payments = {}
    /\ \E st \in SeedQuoteStatuses, l \in ItemLists :
          quotes = (1 :> SeedQuoteWith(st, l, 0))
    /\ cache = EmptyMap
    /\ redisUp = TRUE
    /\ ids = [NoIds EXCEPT !.quote = 1, !.item = Len(quotes[1].items)]
    /\ now = 0
    /\ procs = [p \in Procs |-> IdleProc]
    /\ ops = 0
    /\ returned = {}
    /\ results = {}
    /\ frozen = EmptyMap
    /\ calc = NoCalc
    /\ auth = None

InitCalc ==
    /\ settings = None
    /\ invoices = EmptyMap
    /\ payments = {}
    /\ quotes = EmptyMap
    /\ cache = EmptyMap
    /\ redisUp = TRUE
    /\ ids = NoIds
    /\ now = 0
    /\ procs = [p \in Procs |-> IdleProc]
    /\ ops = 0
    /\ returned = {}
    /\ results = {}
    /\ frozen = EmptyMap
    /\ \E l \in CalcInputs, c \in VatCodes :
          calc = [NoCalc EXCEPT !.pc = "in", !.items = l, !.code = c]
    /\ auth = None

InitAuth ==
    /\ settings = None
    /\ invoices = EmptyMap
    /\ payments = {}
    /\ quotes = EmptyMap
    /\ cache = EmptyMap
    /\ redisUp = TRUE
    /\ ids = NoIds
    /\ now = 0
    /\ procs = [p \in Procs |-> IdleProc]
    /\ ops = 0
    /\ returned = {}
    /\ results = {}
    /\ frozen = EmptyMap
    /\ calc = NoCalc
    /\ \E c \in PermissionCalls \cup AccessRequests :
          auth = [fn |-> c.fn, pc |-> "in", user |-> c.user, action |-> c.action,
                  resource |-> c.resource, params |-> c.params, body |-> c.body,
                  query |-> c.query, out |-> None]

Reads(p) == ReadCache(p) \/ ReadDb(p) \/ ReadSet(p)

NextNumber == \E p \in Procs : StartNumber(p) \/ NumRead(p) \/ NumCreate(p) \/ NumWrite(p)

\* the sequence generator and the settings endpoint
NextSettings == NextNumber \/ \E p \in Procs : StartSettings(p) \/ UpdateSettings(p)

\* creations on a company that may have no settings row yet
NextCreate ==
    \/ \E p \in Procs :
          \/ StartCreate(p)
          \/ NumRead(p) \/ NumCreate(p) \/ NumWrite(p) \/ CreateTx(p)
          \/ Invalidate(p) \/ Reads(p)
    \/ RedisFlip

\* creations and deletions on a new company
NextCreateDelete ==
    \E p \in Procs :
        \/ StartCreateDelete(p)
        \/ NumRead(p) \/ NumCreate(p) \/ NumWrite(p) \/ CreateTx(p)
        \/ Invalidate(p) \/ Reads(p)
        \/ CountPayments(p) \/ InvoiceWrite(p) \/ QuoteWrite(p)

\* bulkAction calls and the steps of the methods they call
NextBulk ==
    \E p \in Procs :
        \/ StartBulkAction(p)
        \/ Reads(p)
        \/ NumRead(p) \/ NumWrite(p) \/ CreateTx(p)
        \/ CountPayments(p) \/ InvoiceWrite(p) \/ QuoteWrite(p) \/ Invalidate(p)
        \/ ConvertBegin(p) \/ ConvertUpdate(p) \/ ConvertInvalidate(p)

\* conversions and reads of one quote, one call after the other
NextConvert ==
    \/ \E p \in Procs :
          \/ StartConvert(p)
          \/ Reads(p)
          \/ NumRead(p) \/ NumWrite(p) \/ CreateTx(p) \/ Invalidate(p)
          \/ ConvertBegin(p) \/ ConvertUpdate(p) \/ ConvertInvalidate(p)
    \/ RedisFlip
    \/ Tick

NextInvoice ==
    \/ \E p \in Procs :
          \/ StartInvoice(p)
          \/ Reads(p)
          \/ NumRead(p) \/ NumWrite(p) \/ CreateTx(p)
          \/ CountPayments(p) \/ InvoiceWrite(p) \/ Invalidate(p)
    \/ CacheExpire

NextQuote ==
    \/ \E p \in Procs :
          \/ StartQuote(p)
          \/ Reads(p)
          \/ NumRead(p) \/ NumWrite(p) \/ CreateTx(p)
          \/ QuoteWrite(p) \/ Invalidate(p)
          \/ ConvertBegin(p) \/ ConvertUpdate(p) \/ ConvertInvalidate(p)
    \/ CacheExpire
    \/ Tick

NextQuoteRedis == NextQuote \/ RedisFlip

NextTotals ==
    \/ \E p \in Procs :
          \/ StartTotals(p)
          \/ Reads(p)
          \/ NumRead(p) \/ NumWrite(p) \/ CreateTx(p)
          \/ InvoiceWrite(p) \/ QuoteWrite(p) \/ Invalidate(p)
    \/ CacheExpire
    \/ RedisFlip

\* creations and updates of invoices and quotes, concurrently
NextItems ==
    \E p \in Procs :
        \/ StartItems(p)
        \/ Reads(p)
        \/ NumRead(p) \/ NumWrite(p) \/ CreateTx(p)
        \/ InvoiceWrite(p) \/ QuoteWrite(p) \/ Invalidate(p)

NextCalc == CalcInvoice \/ CalcQuote

NextAuth == CheckPermission \/ ValidateAccess

Next ==
    \/ \E p \in Procs :
          \/ StartNumber(p) \/ StartInvoice(p) \/ StartQuote(p) \/ StartSettings(p)
          \/ UpdateSettings(p)
          \/ Reads(p)
          \/ NumRead(p) \/ NumCreate(p) \/ NumWrite(p) \/ CreateTx(p)
          \/ CountPayments(p) \/ InvoiceWrite(p) \/ QuoteWrite(p) \/ Invalidate(p)
          \/ ConvertBegin(p) \/ ConvertUpdate(p) \/ ConvertInvalidate(p)
    \/ CacheExpire
    \/ RedisFlip
    \/ Tick

\* the whole service, from a company nobody has used yet
Spec == Init /\ [][Next]_vars

\* the sequence generator under concurrent requests for numbers
SpecNumber == Init /\ [][NextNumber]_vars

\* the sequence generator while the company's settings are edited
SpecSettings == Init /\ [][NextSettings]_vars

\* concurrent createInvoice / createQuote calls on a new company, while Redis
\* goes down and comes back
SpecCreate == Init /\ [][NextCreate]_vars

\* createInvoice / createQuote while the document they create is deleted,
\* Redis healthy
SpecCreateDelete == Init /\ [][NextCreateDelete]_vars

\* bulkAction of both services on a company that has one invoice and one quote
SpecBulk == InitBulk /\ [][NextBulk]_vars

\* convertToInvoice and getQuoteById on one quote, one call at a time, while
\* the clock runs and Redis goes down and comes back
SpecConvert == InitConvert /\ [][NextConvert]_vars

\* the invoice lifecycle on a company that has one invoice, Redis healthy
SpecInvoice == InitInvoice /\ [][NextInvoice]_vars

\* the quote lifecycle and the conversion on a company that has one quote,
\* Redis healthy
SpecQuote == InitQuote /\ [][NextQuote]_vars

\* the same while Redis goes down and comes back
SpecQuoteRedis == InitQuote /\ [][NextQuoteRedis]_vars

\* creations, item updates and reads of invoices and quotes, concurrently,
\* while Redis goes down and comes back
SpecTotals == InitTotals /\ [][NextTotals]_vars

\* creations and updates on a company that has one draft invoice and one sent
\* quote, Redis healthy
SpecItems == InitTotals /\ [][NextItems]_vars

\* the calculator applied to one input
SpecCalc == InitCalc /\ [][NextCalc]_vars

\* the auth layer applied to one request
SpecAuth == InitAuth /\ [][NextAuth]_vars

----------------------------------------------------------------------------
(* Claims *)

ConvertCalls(q) == {r \in results : r.op = "convertToInvoice" /\ r.id = q}

\* C1: the numbers returned by concurrent getNextInvoiceNumber calls (or
\* getNextQuoteNumber calls) of one company are pairwise distinct.
C1_DistinctNumbers ==
    \A a, b \in returned :
        a.nth # b.nth /\ a.kind = b.kind => a.number # b.number

\* C2: of all convertToInvoice calls on one quote at most one succeeds, and at
\* most one invoice is created for the quote.
C2_ExactlyOnce ==
    \A q \in TargetIds :
        /\ Cardinality({r \in ConvertCalls(q) : r.res = "ok"}) <= 1
        /\ Cardinality({r.created : r \in {c \in ConvertCalls(q) : IsSome(c.created)}}) <= 1

\* C3: when a convertToInvoice call ends, either it succeeded, its invoice is
\* stored and the quote is stored as converted into that invoice, or it failed
\* and no invoice created by the call is stored.
C3_AllOrNothing ==
    \A r \in results :
        r.op = "convertToInvoice" =>
            IF r.res = "ok" THEN r.stored /\ r.linked ELSE ~r.stored

\* C4: once an invoice's stored status is paid, its items and its three
\* amounts never change afterwards.
C4_PaidImmutable ==
    \A id \in DOMAIN frozen :
        IsSome(frozen[id].paid) /\ id \in DOMAIN invoices =>
            MoneyOf(invoices[id]) = Val(frozen[id].paid)

\* C5: once an invoice's stored status is cancelled, the invoice stays stored
\* with every field, its items and its payments unchanged.
C5_CancelledImmutable ==
    \A id \in DOMAIN frozen :
        IsSome(frozen[id].cancelled) =>
            /\ id \in DOMAIN invoices
            /\ invoices[id] = Val(frozen[id].cancelled).row
            /\ PaymentsOf(id) = Val(frozen[id].cancelled).payments

\* the place of a status in draft -> pending -> sent -> {end states}
InvoiceRank(st) ==
    CASE st = "draft" -> 0 [] st = "pending" -> 1 [] st = "sent" -> 2 [] OTHER -> 3

\* C6: no step moves an invoice's stored status backwards in the lifecycle
\* draft, pending, sent, end states.
C6_StatusForward ==
    [][\A id \in DOMAIN invoices \cap DOMAIN invoices' :
          InvoiceRank(invoices'[id].status) >= InvoiceRank(invoices[id].status)]_vars

\* C7: a quote's status becomes converted only by a step taken while it is
\* accepted, and a converted quote's status never changes.
C7_ConvertedTerminal ==
    [][\A id \in DOMAIN quotes \cap DOMAIN quotes' :
          /\ quotes'[id].status = "converted" /\ quotes[id].status # "converted"
                => quotes[id].status = "accepted"
          /\ quotes[id].status = "converted" => quotes'[id].status = "converted"]_vars

\* C8: no step sets a quote's status to accepted at a time later than the
\* quote's validity_date.
C8_ValidityDeadline ==
    [][\A id \in DOMAIN quotes \cap DOMAIN quotes' :
          quotes'[id].status = "accepted" /\ quotes[id].status # "accepted"
              => now <= quotes'[id].validity_date]_vars

\* header and items of one document agree
Consistent(row) ==
    /\ row.amount_including_tax = row.amount_excluding_tax + row.tax
    /\ row.amount_excluding_tax = SumExcl(row.items)
    /\ row.amount_including_tax = SumIncl(row.items)

\* every document a reader can have in hand: stored, cached, or read by a request
Observed ==
    {invoices[id] : id \in DOMAIN invoices}
    \cup {quotes[id] : id \in DOMAIN quotes}
    \cup {cache[k] : k \in DOMAIN cache}
    \cup {Val(procs[p].snap) : p \in {q \in Procs : IsSome(procs[q].snap)}}
    \cup {Val(procs[p].out) : p \in {q \in Procs : IsSome(procs[q].out)}}

TableRate(code) ==
    CASE code = "ZERO" -> 0 [] code = "REDUCED_1" -> 21 [] code = "REDUCED_2" -> 55
      [] code = "REDUCED_3" -> 100 [] code = "STANDARD" -> 200 [] code = "EXPORT" -> 0
      [] OTHER -> 200

\* C10: getVatRateValue, of either service, returns the table's rate for a
\* code of the table and 20.0 for every other code.
C10_RateTable ==
    calc.pc = "out" => Val(calc.rate) = TableRate(calc.code)

\* the calculator's output, once it has been applied
CalcOut == Val(calc.out)

\* quantity x unit price of a submitted line, in thousandths
LineTotal(item) == item.quantity * item.unit_price_excluding_tax * MoneyScale

\* the discount the specification gives a line: the percentage when one is
\* provided, else the amount when one is provided, else nothing
StatedDiscount(item) ==
    IF IsSome(item.discount_percentage)
    THEN (LineTotal(item) * Val(item.discount_percentage)) \div 100
    ELSE IF IsSome(item.discount_amount)
    THEN Val(item.discount_amount) * MoneyScale
    ELSE 0

\* C11: a line that provides discount_percentage is discounted by
\* line_total x discount_percentage / 100 whatever discount_amount it carries;
\* discount_amount applies only when no percentage is provided.
C11_PercentagePrecedence ==
    calc.pc = "out" =>
        \A i \in 1..Len(calc.items) :
            IsSome(calc.items[i].discount_percentage) \/ IsSome(calc.items[i].discount_amount)
                => CalcOut.items[i].total_excluding_tax =
                       LineTotal(calc.items[i]) - StatedDiscount(calc.items[i])

\* total_excluding_tax + total_excluding_tax x vat_rate / 100, at the table's rate
StatedIncl(item) ==
    LET excl == LineTotal(item) - StatedDiscount(item)
    IN  excl + (excl * TableRate(item.vat_rate)) \div (100 * RateScale)

\* C12: each calculated line has total_excluding_tax = quantity x unit price -
\* discount and total_including_tax = total_excluding_tax x (1 + vat_rate/100),
\* the document totals are the sums over the lines, and the lines (3 at 100,
\* STANDARD), (1 at 50, REDUCED_2) total excl 350, tax 62.75, incl 412.75.
C12_TotalsFormula ==
    calc.pc = "out" =>
        /\ \A i \in 1..Len(calc.items) :
              /\ CalcOut.items[i].total_excluding_tax =
                     LineTotal(calc.items[i]) - StatedDiscount(calc.items[i])
              /\ CalcOut.items[i].total_including_tax = StatedIncl(calc.items[i])
        /\ CalcOut.totals.totalExcludingTax = SumExcl(CalcOut.items)
        /\ CalcOut.totals.totalIncludingTax = SumIncl(CalcOut.items)
        /\ CalcOut.totals.totalTax = SumIncl(CalcOut.items) - SumExcl(CalcOut.items)
        /\ calc.items = <<ItemA, ItemB>> =>
              CalcOut.totals = [totalExcludingTax |-> 350000, totalTax |-> 62750,
                                totalIncludingTax |-> 412750]

\* requests that only read
ReadOps == {"getInvoiceById", "getQuoteById"}

\* a mutating request is between its start and its return
MutationInFlight ==
    \E p \in Procs : procs[p].pc # "idle" /\ procs[p].op \notin ReadOps \cup NumberOps

\* the entry of the cache under key k is what storage holds for k
Fresh(k) == k[2] \in DOMAIN Table(k[1]) /\ cache[k] = Table(k[1])[k[2]]

\* C13: once the mutating operations on a document have completed, a
\* getInvoiceById / getQuoteById returns what storage holds: no cache entry
\* with pre-mutation content is left, whatever concurrent readers did.
C13_NoStaleEntry ==
    ~MutationInFlight => \A k \in DOMAIN cache : Fresh(k)

\* where a request is about to run a cache command: get, set, delete-by-pattern
CachePcs == {"r1_cache", "r2_cache", "r1_set", "r2_set", "inval", "cv_inval"}

\* the errors a method raises for a reason other than a status check or a
\* missing document
GenericErrors == {"InvoiceError", "QuoteError", "CompanyError"}

\* the calls that end in this step
Ended == results' \ results

\* C14: a cache command, failing or not, never makes the operation that
\* issued it fail: a step of a request at a cache command never ends the
\* call with an error of the service.
C14_CacheFailureSwallowed ==
    [][\A p \in Procs :
          procs[p].pc \in CachePcs /\ procs'[p] # procs[p]
              => \A r \in Ended : r.call = procs[p].call => r.res \notin GenericErrors]_vars

\* the verdict of a method's status check had it read the document from storage
StoredGuard(pr) ==
    IF pr.id \in DOMAIN Table(KindOf(pr.op))
    THEN Guard(pr, Table(KindOf(pr.op))[pr.id], FALSE, now)
    ELSE "NotFoundError"

\* C15: the lifecycle guards do not depend on the cache: a guard evaluated on
\* a cached document accepts the operation exactly when the same guard on the
\* stored document would.
C15_GuardIgnoresCache ==
    [][\A p \in Procs :
          /\ procs[p].pc = "r1_cache" /\ procs'[p] # procs[p]
          /\ redisUp /\ ReadKey(procs[p]) \in DOMAIN cache
          => (Guard(procs[p], cache[ReadKey(procs[p])], TRUE, now) = "ok"
                <=> StoredGuard(procs[p]) = "ok")]_vars

\* request p runs the write of deleteInvoice in this step
DeleteStep(p) ==
    /\ procs[p].op = "deleteInvoice" /\ procs[p].pc = "write"
    /\ procs'[p] # procs[p]
    /\ procs[p].id \in DOMAIN invoices

\* C16: an invoice that a Payment references is never physically deleted:
\* deleteInvoice soft-cancels it (status cancelled, cancelled_at set), and
\* hard-deletes only an invoice without a Payment, also when markAsPaid with
\* payment data runs concurrently.
C16_PaidNeverDeleted ==
    [][/\ \A id \in DOMAIN invoices :
             PaymentsOf(id) # {} => id \in DOMAIN invoices'
       /\ \A p \in Procs :
             DeleteStep(p) /\ PaymentsOf(procs[p].id) # {}
                 => /\ procs[p].id \in DOMAIN invoices'
                    /\ invoices'[procs[p].id].status = "cancelled"
                    /\ IsSome(invoices'[procs[p].id].cancelled_at)]_vars

\* the markAsPaid calls on invoice id that succeeded
PaidCalls(id) == {r \in results : r.op = "markAsPaid" /\ r.id = id /\ r.res = "ok"}

\* C17: at most one of the markAsPaid calls on an invoice succeeds and at
\* most one Payment is created for it, however the calls interleave: a call on
\* an invoice whose payment_status is paid fails and creates no Payment.
C17_PaidOnce ==
    \A id \in TargetIds :
        /\ Cardinality(PaidCalls(id)) <= 1
        /\ Cardinality(PaymentsOf(id)) <= 1

\* request p runs the write of markAsSent on a stored document in this step
SentStep(p) ==
    /\ procs[p].op \in {"invoiceMarkAsSent", "quoteMarkAsSent"}
    /\ procs[p].pc = "write"
    /\ procs'[p] # procs[p]
    /\ procs[p].id \in DOMAIN Table(KindOf(procs[p].op))

\* the table of kind `kind` after the step
TableNext(kind) == IF kind = "invoice" THEN invoices' ELSE quotes'

\* C18: markAsSent writes only when the stored status at the moment of the
\* write is draft or pending, and then sets status sent and sent_at; from any
\* other stored status the document is left unchanged.
C18_SentFromDraftOnly ==
    [][\A p \in Procs :
          SentStep(p) =>
              LET kind == KindOf(procs[p].op)
                  id == procs[p].id
                  row == Table(kind)[id]
              IN  /\ id \in DOMAIN TableNext(kind)
                  /\ IF row.status \in {"draft", "pending"}
                     THEN /\ TableNext(kind)[id].status = "sent"
                          /\ IsSome(TableNext(kind)[id].sent_at)
                     ELSE TableNext(kind)[id] = row]_vars

\* the stored quote shows that it is, or once was, accepted or converted:
\* accepted_at is written only together with status accepted and is never
\* cleared, converted_to_invoice only together with status converted
EverAccepted(row) ==
    \/ row.status \in {"accepted", "converted"}
    \/ IsSome(row.accepted_at)
    \/ row.converted_to_invoice

\* C19: a quote that has had status accepted or converted is never
\* physically deleted.
C19_AcceptedNeverDeleted ==
    [][\A id \in DOMAIN quotes : EverAccepted(quotes[id]) => id \in DOMAIN quotes']_vars

\* request p evaluates its status check in this step: on a cache hit, or
\* after the row read from storage was cached
GuardStep(p) ==
    /\ procs[p].pc \in {"r1_cache", "r1_set"}
    /\ procs'[p] # procs[p]
    /\ procs'[p].pc # "r1_db"

\* the stored quote is locked against this request: converted, accepted and
\* patched without a status, or accepted / converted and to be deleted
Locked(pr) ==
    /\ pr.id \in DOMAIN quotes
    /\ \/ /\ pr.op = "updateQuote"
          /\ \/ quotes[pr.id].status = "converted"
             \/ quotes[pr.id].status = "accepted" /\ ~IsSome(pr.arg.status)
       \/ /\ pr.op = "deleteQuote"
          /\ quotes[pr.id].status \in {"accepted", "converted"}

\* C20: updateQuote on a converted quote, updateQuote without a status on an
\* accepted quote, and deleteQuote on an accepted or converted quote fail with
\* QuoteStatusError and never reach their write: the stored quote is unchanged.
C20_LockedQuoteRejected ==
    [][\A p \in Procs :
          GuardStep(p) /\ Locked(procs[p])
              => /\ \E r \in Ended : r.call = procs[p].call /\ r.res = "QuoteStatusError"
                 /\ quotes' = quotes]_vars

\* markAsAccepted must refuse the stored quote: its validity_date is in the
\* past, or it is accepted already
Refused(row, t) == row.validity_date < t \/ row.status = "accepted"

\* C21: markAsAccepted fails with QuoteStatusError and leaves the quote
\* unchanged when the quote's validity_date is in the past, whatever its
\* status, or when its status is accepted already; in every other case it goes
\* on to its write, which sets status accepted and accepted_at.
C21_AcceptChecksValidity ==
    [][\A p \in Procs :
          procs[p].op = "markAsAccepted" /\ procs[p].id \in DOMAIN quotes =>
              /\ GuardStep(p) =>
                    IF Refused(quotes[procs[p].id], now)
                    THEN /\ \E r \in Ended : /\ r.call = procs[p].call
                                             /\ r.res = "QuoteStatusError"
                         /\ quotes' = quotes
                    ELSE procs'[p].pc = "write"
              /\ procs[p].pc = "write" /\ procs'[p] # procs[p] =>
                    /\ quotes'[procs[p].id].status = "accepted"
                    /\ quotes'[procs[p].id].accepted_at = Some(now)]_vars

\* the counters of a settings row
CountersOf(st) == <<Val(st).next_invoice_number, Val(st).next_quote_number>>

\* C22: whatever operations run on a company, next_invoice_number and
\* next_quote_number never decrease, and no number is issued twice for the
\* same kind.
C22_CountersMonotonic ==
    [][/\ settings # None /\ settings' # None =>
             /\ CountersOf(settings')[1] >= CountersOf(settings)[1]
             /\ CountersOf(settings')[2] >= CountersOf(settings)[2]
       /\ \A a, b \in returned' :
             a.nth # b.nth /\ a.kind = b.kind => a.number # b.number]_vars

CreateOps == {"createInvoice", "createQuote"}

\* the number a stored document carries
NumberOf(kind, row) == IF kind = "invoice" THEN row.invoice_number ELSE row.quote_number

\* the number the sequence generator gave a call: the prefix and counter it read
Issued(num) == FormatNumber(Val(num).prefix, Val(num).n)

\* the document with identity id is stored and carries the number issued as num
Carries(op, id, num) ==
    /\ Val(id) \in DOMAIN Table(CreatedKind(op))
    /\ NumberOf(CreatedKind(op), Table(CreatedKind(op))[Val(id)]) = Issued(num)

\* C23: a create call whose number generation failed ends with an error and
\* stores no document; a create call that was issued a number and ends without
\* an error has stored a document carrying that number, and in no state does a
\* create call hold a document under another number than the one issued to it.
C23_NoSilentSkip ==
    /\ \A r \in results :
          r.op \in CreateOps =>
              /\ ~IsSome(r.num) => r.res \in GenericErrors /\ ~IsSome(r.created)
              /\ r.res = "ok" =>
                    IsSome(r.num) /\ IsSome(r.created) /\ Carries(r.op, r.created, r.num)
    /\ \A p \in Procs :
          procs[p].op \in CreateOps /\ IsSome(procs[p].newId) =>
              Carries(procs[p].op, procs[p].newId, procs[p].num)
    /\ Cardinality(DOMAIN invoices) + Cardinality(DOMAIN quotes) =
          Cardinality({r \in results : r.op \in CreateOps /\ IsSome(r.created)})
          + Cardinality({p \in Procs : procs[p].op \in CreateOps /\ IsSome(procs[p].newId)})

\* C23 witness: of two concurrent creations on a new company one failed in
\* the sequence generator and stored nothing, the other was issued a number
\* and returned the document that carries it
C23_Witness ==
    \E a, b \in results :
        /\ a.op \in CreateOps /\ ~IsSome(a.num) /\ a.res \in GenericErrors
        /\ b.op \in CreateOps /\ b.res = "ok" /\ Carries(b.op, b.created, b.num)
        /\ Cardinality(DOMAIN invoices) + Cardinality(DOMAIN quotes) = 1

\* request p looks its document up in storage in this step and finds none:
\* getInvoiceById / getQuoteById throws NotFoundError
NotFoundStep(p) ==
    /\ procs[p].pc \in {"r1_db", "r2_db"}
    /\ procs'[p] # procs[p]
    /\ ReadKey(procs[p])[2] \notin DOMAIN Table(ReadKey(procs[p])[1])

\* request p evaluates its status check on a cached document in this step
\* and the check throws the status error e
StatusErrorStep(p, e) ==
    /\ procs[p].pc = "r1_cache" /\ procs'[p] # procs[p]
    /\ redisUp /\ ReadKey(procs[p]) \in DOMAIN cache
    /\ Guard(procs[p], cache[ReadKey(procs[p])], TRUE, now) = e

\* C24: a domain error raised inside a lifecycle operation reaches the
\* operation's caller with its kind unchanged: the call in which
\* NotFoundError, InvoiceStatusError or QuoteStatusError is thrown ends with
\* that very error, for create, update, delete and the mark operations alike.
C24_DomainErrorsPropagate ==
    [][\A p \in Procs :
          /\ NotFoundStep(p) =>
                \E r \in Ended : r.call = procs[p].call /\ r.res = "NotFoundError"
          /\ \A e \in {"InvoiceStatusError", "QuoteStatusError"} :
                StatusErrorStep(p, e) =>
                    \E r \in Ended : r.call = procs[p].call /\ r.res = e]_vars

\* the ids of a sequence
Range(s) == {s[i] : i \in 1..Len(s)}

\* the calls bulkAction call b made for the ids of its batch, as they ended
BulkCalls(b) == {r \in results : r.call = b.call /\ r.op # "bulkAction"}

\* C25: a finished bulkAction has processed every id of its batch: success +
\* failed is the number of ids, errors holds one entry for each id whose
\* action failed and no other, and success counts exactly the ids on which
\* the requested action was carried out.
C25_BulkTally ==
    \A b \in results :
        b.op = "bulkAction" =>
            LET done == {r.id : r \in {c \in BulkCalls(b) : c.res = "ok"}}
            IN  /\ b.success + b.failed = Len(b.batch)
                /\ Len(b.errors) = b.failed
                /\ Cardinality({b.errors[i].id : i \in 1..Len(b.errors)}) = b.failed
                /\ {b.errors[i].id : i \in 1..Len(b.errors)} = Range(b.batch) \ done
                /\ b.success = Cardinality(done)

\* request p runs the transaction of the createInvoice that convertToInvoice
\* calls in this step
ConvertCreateStep(p) ==
    /\ procs[p].op = "convertToInvoice" /\ procs[p].pc = "tx"
    /\ procs'[p] # procs[p]

\* the payment terms the specification gives a conversion: those of the
\* conversionData, else the company's default_payment_terms
StatedTerms(arg) ==
    IF IsSome(arg.payment_terms) THEN Val(arg.payment_terms)
    ELSE Val(settings).default_payment_terms

\* C26: the invoice convertToInvoice creates without a due_date is due at the
\* time of the call plus conversionData.payment_terms days, and without
\* payment_terms at that time plus the company's default_payment_terms days.
C26_DueDateFallback ==
    [][\A p \in Procs :
          ConvertCreateStep(p) /\ ~IsSome(procs[p].arg.due_date) =>
              \E t \in 0..now :
                  invoices'[Val(procs'[p].newId)].due_date = Some(t + StatedTerms(procs[p].arg))]_vars

\* the fields of a line that a conversion copies
Copied(item) ==
    [quantity |-> item.quantity,
     unit_price_excluding_tax |-> item.unit_price_excluding_tax,
     discount_percentage |-> item.discount_percentage,
     discount_amount |-> item.discount_amount,
     vat_rate |-> item.vat_rate, sort_order |-> item.sort_order]

\* the invoice has one line per line of the quote, with the copied fields
\* equal, and the same three amounts
SameDocument(invoice, quote) ==
    /\ Len(invoice.items) = Len(quote.items)
    /\ \A i \in 1..Len(quote.items) : Copied(invoice.items[i]) = Copied(quote.items[i])
    /\ invoice.amount_excluding_tax = quote.amount_excluding_tax
    /\ invoice.tax = quote.tax
    /\ invoice.amount_including_tax = quote.amount_including_tax

Convertible(row) == row.status = "accepted" /\ ~row.converted_to_invoice

\* C28: convertToInvoice on a quote whose status is not accepted fails with
\* QuoteStatusError at its status check, creating no invoice and consuming no
\* invoice number; on an accepted quote that is not converted yet it does not
\* fail, whatever the quote's validity_date (Redis answering).
C28_ConvertChecksStatusOnly ==
    [][\A p \in Procs :
          procs[p].op = "convertToInvoice" /\ procs[p].id \in DOMAIN quotes =>
              /\ GuardStep(p) /\ quotes[procs[p].id].status # "accepted" /\ redisUp =>
                    /\ \E r \in Ended : /\ r.call = procs[p].call
                                        /\ r.res = "QuoteStatusError"
                    /\ invoices' = invoices /\ settings' = settings
              /\ Convertible(quotes[procs[p].id]) /\ redisUp =>
                    \A r \in Ended : r.call = procs[p].call => r.res = "ok"]_vars

\* the stored quote was converted before, by another call than pr
ConvertedBefore(pr) ==
    /\ pr.id \in DOMAIN quotes
    /\ quotes[pr.id].converted_to_invoice
    /\ quotes[pr.id].invoice_id # pr.newId

\* C29: convertToInvoice on a quote whose converted_to_invoice is already
\* true fails and changes nothing: no step of the call changes the linked
\* invoice, the quote, the company's counters or the set of stored invoices.
C29_SecondConversionInert ==
    [][\A p \in Procs :
          /\ procs[p].op = "convertToInvoice" /\ procs'[p] # procs[p]
          /\ ConvertedBefore(procs[p])
          => /\ dbVars' = dbVars
             /\ \A r \in Ended : r.call = procs[p].call => r.res # "ok"]_vars

\* C29 witness: a quote was converted by one call and a later conversion of
\* it has failed, with one invoice stored
C29_Witness ==
    \E a, b \in results :
        /\ a.op = "convertToInvoice" /\ a.res = "ok" /\ a.linked
        /\ b.op = "convertToInvoice" /\ b.id = a.id /\ b.call > a.call
        /\ b.res # "ok"
        /\ Cardinality(DOMAIN invoices) = 1
        /\ quotes[a.id].invoice_id = a.created

\* request p runs the transaction of markAsPaid on a stored invoice in this step
PaidStep(p) ==
    /\ procs[p].op = "markAsPaid" /\ procs[p].pc = "write"
    /\ procs'[p] # procs[p]
    /\ procs[p].id \in DOMAIN invoices

\* C30: markAsPaid changes payment_status, paid_at and payment_method of its
\* invoice and nothing else of it: status, items and the three amounts stay;
\* it adds one Payment for the invoice when payment data came with the call
\* and none otherwise, and touches no other document.
C30_PaidFrame ==
    [][\A p \in Procs :
          PaidStep(p) =>
              LET id == procs[p].id
                  old == invoices[id]
              IN  /\ DOMAIN invoices' = DOMAIN invoices
                  /\ \A j \in DOMAIN invoices \ {id} : invoices'[j] = invoices[j]
                  /\ invoices'[id].payment_status = "paid"
                  /\ [invoices'[id] EXCEPT !.payment_status = old.payment_status,
                                           !.paid_at = old.paid_at,
                                           !.payment_method = old.payment_method] = old
                  /\ payments \subseteq payments'
                  /\ Cardinality(payments' \ payments) =
                         IF IsSome(procs[p].arg.pay) THEN 1 ELSE 0
                  /\ \A pm \in payments' \ payments : pm.invoice_id = id
                  /\ quotes' = quotes /\ settings' = settings]_vars

\* C30 witness: markAsPaid with payment data has just committed on a draft
\* invoice: the invoice is paid, still a draft, and has its Payment
C30_Witness ==
    \E p \in Procs :
        /\ procs[p].op = "markAsPaid" /\ procs[p].pc = "inval"
        /\ IsSome(procs[p].arg.pay)
        /\ procs[p].id \in DOMAIN invoices
        /\ invoices[procs[p].id].payment_status = "paid"
        /\ invoices[procs[p].id].status = "draft"
        /\ PaymentsOf(procs[p].id) # {}

\* request p runs the transaction of updateInvoice / updateQuote on a stored
\* document in this step
UpdateStep(p) ==
    /\ procs[p].op \in {"updateInvoice", "updateQuote"}
    /\ procs[p].pc = "write"
    /\ procs'[p] # procs[p]
    /\ procs[p].id \in DOMAIN Table(KindOf(procs[p].op))

\* what a caller supplies of a line
Supplied(item) ==
    [quantity |-> item.quantity,
     unit_price_excluding_tax |-> item.unit_price_excluding_tax,
     discount_percentage |-> item.discount_percentage,
     discount_amount |-> item.discount_amount,
     vat_rate |-> item.vat_rate]

ItemIds(row) == {row.items[i].item_id : i \in 1..Len(row.items)}

\* the stored lines of row are the supplied ones, line by line
HoldsExactly(row, supplied) ==
    /\ Len(row.items) = Len(supplied)
    /\ \A i \in 1..Len(supplied) : Supplied(row.items[i]) = Supplied(supplied[i])

\* the sum of the supplied lines' quantity x unit price - discount
SuppliedExcl(supplied) ==
    SumSeq([i \in 1..Len(supplied) |-> LineTotal(supplied[i]) - StatedDiscount(supplied[i])])

C32_ConversionMarkStable ==
    [][\A id \in DOMAIN quotes \cap DOMAIN quotes' :
          /\ quotes[id].converted_to_invoice => quotes'[id].converted_to_invoice
          /\ IsSome(quotes[id].invoice_id) =>
                quotes'[id].invoice_id = quotes[id].invoice_id]_vars

\* the permission table of the specification
StatedPermission(role, action, resource) ==
    CASE role = "ADMIN" -> TRUE
      [] role = "MANAGER" -> ~(action = "delete" /\ resource = "user")
      [] role = "ACCOUNTANT" ->
            resource \in {"invoice", "quote", "customer", "product", "payment"}
      [] role = "SALES" ->
            \/ resource \in {"quote", "customer", "product"}
            \/ resource = "invoice" /\ action \in {"read", "list"}
      [] role \in {"USER", "READONLY"} -> action \in {"read", "list"}
      [] OTHER -> FALSE

\* a checkPermission call has returned
PermissionChecked == auth # None /\ auth.fn = "checkPermission" /\ auth.pc = "out"

NamedCompanies(req) == {c \in {req.params, req.body, req.query} : IsSome(c)}

\* C38: a request of an authenticated user who is not ADMIN that names, in
\* its route parameter, body or query, a company other than the user's own
\* is answered ForbiddenError by validateCompanyAccess and is not passed on.
C38_TenantIsolation ==
    /\ auth # None
    /\ auth.fn = "validateCompanyAccess" /\ auth.pc = "out"
    /\ auth.user # None
    /\ Val(auth.user).role # "ADMIN"
    /\ \E c \in NamedCompanies(auth) : c # Val(auth.user).company_id
    => auth.out = "ForbiddenError"

\* the sort_order the specification gives the line at position i (from 1) of
\* a submitted array: the supplied one, else the index
StatedSortOrder(item, i) ==
    IF IsSome(item.sort_order) THEN item.sort_order ELSE Some(i - 1)

\* the lines of row carry the sort_order stated for the supplied lines
SortOrdersKept(row, supplied) ==
    /\ Len(row.items) = Len(supplied)
    /\ \A i \in 1..Len(supplied) :
          row.items[i].sort_order = StatedSortOrder(supplied[i], i)

\* request p runs the transaction of createInvoice / createQuote in this step
CreateStep(p) ==
    /\ procs[p].op \in CreateOps /\ procs[p].pc = "tx"
    /\ procs'[p] # procs[p]

\* C34: the lines a create or an update with items stores keep the
\* sort_order the caller supplied, whatever its value, and carry their
\* position in the submitted array only where none was supplied.
C34_SortOrderKept ==
    [][\A p \in Procs :
          /\ CreateStep(p) =>
                SortOrdersKept(TableNext(CreatedKind(procs[p].op))[Val(procs'[p].newId)],
                               Val(procs[p].arg.items))
          /\ UpdateStep(p) /\ IsSome(procs[p].arg.items) =>
                SortOrdersKept(TableNext(KindOf(procs[p].op))[procs[p].id],
                               Val(procs[p].arg.items))]_vars

\* the call of request p ends in this step with the error e
EndsWith(p, e) == \E r \in Ended : r.call = procs[p].call /\ r.res = e

\* C35: a deleteInvoice whose status check runs while the stored invoice has
\* status paid ends with InvoiceStatusError and leaves the invoices and the
\* payments as they are; a deleteInvoice that looks up, or checks, an id that
\* is not stored ends with NotFoundError.
C35_PaidDeleteRejected ==
    [][\A p \in Procs :
          procs[p].op = "deleteInvoice" =>
              /\ /\ GuardStep(p)
                 /\ procs[p].id \in DOMAIN invoices
                 /\ invoices[procs[p].id].status = "paid"
                 => /\ EndsWith(p, "InvoiceStatusError")
                    /\ invoices' = invoices /\ payments' = payments
              /\ /\ GuardStep(p) \/ NotFoundStep(p)
                 /\ procs[p].id \notin DOMAIN invoices
                 => EndsWith(p, "NotFoundError")]_vars

\* C36: in every state, a stored invoice whose status is cancelled has
\* cancelled_at set.
C36_CancelledHasDate ==
    \A id \in DOMAIN invoices :
        invoices[id].status = "cancelled" => IsSome(invoices[id].cancelled_at)

\* C37: a createInvoice / createQuote call that ended with an error has left
\* no document of its own in storage.
C37_FailedCreateLeavesNothing ==
    \A r \in results :
        r.op \in CreateOps /\ r.res # "ok" => ~r.stored

====
